---- MODULE Spec2Model ----
(***************************************************************************)
(* The command interpreter of gptme (gptme/commands.py): execute_cmd and   *)
(* the generator handle_cmd, acting on the transcript of a LogManager.     *)
(*                                                                         *)
(* Text is a sequence of one-character strings, so that lstrip, split,     *)
(* join, isdigit and int are computed as Python computes them.  Three      *)
(* elements stand for text that is not one ASCII character: "sup2" is the  *)
(* character U+00B2 (superscript two), "FENCE" is a Markdown code fence    *)
(* and "\n" a line feed.                                                   *)
(*                                                                         *)
(* Spec is the chat loop handing what the user types to execute_cmd.       *)
(* SpecCalls adds direct calls of handle_cmd, with either value of         *)
(* no_confirm.  SpecScenario issues undo on longer transcripts, and        *)
(* SpecParse follows the parser of handle_cmd alone over short texts.      *)
(***************************************************************************)
EXTENDS Integers, Sequences, FiniteSets, TLC

VARIABLES
    log,         \* log.log: the transcript, a sequence of messages
    files,       \* the filesystem seen by open() and Path.exists()
    pc,          \* where the running handler is suspended, or "idle"/"exited";
                 \* "called"/"matching" before and after the parse of line 81
    t,           \* handle_cmd's local t: the edit buffer of case "edit"
    res,         \* handle_cmd's local res of case "edit"
    out,         \* effects of the command being handled, in program order
    yielded,     \* messages the generator has produced for this command
    cmd,         \* the text handed to handle_cmd
    entry,       \* who called handle_cmd: "execute_cmd" or "handle_cmd"
    no_confirm,  \* handle_cmd's parameter no_confirm
    parsed,      \* handle_cmd's locals name and args: the tokens of line 81
    pre,         \* the transcript before the caller appended the message
    result       \* how the call ended: "none", "running", "returned",
                 \* "raised", "exit"

vars == <<log, files, pc, t, res, out, yielded, cmd, entry, no_confirm, parsed, pre, result>>

-----------------------------------------------------------------------------
(* Bounds of the model *)

\* the transcript never grows beyond MaxLen messages
MaxLen == 3

-----------------------------------------------------------------------------
(* Text *)

CMDFIX == "/"

SP == " "

AsciiDigits == {"0", "1", "2"}

\* characters for which str.isdigit() is true: decimal digits and other
\* characters of Unicode category No with a digit value, such as U+00B2
DigitChars == AsciiDigits \cup {"sup2"}

DigitValue(c) == CASE c = "0" -> 0 [] c = "1" -> 1 [] c = "2" -> 2

Reverse(s) == [i \in 1..Len(s) |-> s[Len(s) + 1 - i]]

RECURSIVE lstrip(_, _)
\* str.lstrip(chars) with a one-character chars: drops every leading ch
lstrip(s, ch) ==
    IF s # <<>> /\ Head(s) = ch THEN lstrip(Tail(s), ch) ELSE s

RECURSIVE SplitFrom(_, _, _, _)
SplitFrom(s, sep, tok, acc) ==
    IF s = <<>> THEN Append(acc, tok)
    ELSE IF Head(s) = sep THEN SplitFrom(Tail(s), sep, <<>>, Append(acc, tok))
    ELSE SplitFrom(Tail(s), sep, Append(tok, Head(s)), acc)

\* str.split(sep): one token more than there are separators, empty tokens kept
split(s, sep) == SplitFrom(s, sep, <<>>, <<>>)

RECURSIVE join(_, _)
\* sep.join(parts)
join(parts, sep) ==
    IF parts = <<>> THEN <<>>
    ELSE IF Len(parts) = 1 THEN parts[1]
    ELSE parts[1] \o <<sep>> \o join(Tail(parts), sep)

\* str.isdigit(): at least one character and every character a digit
isdigit(s) == s # <<>> /\ \A i \in 1..Len(s) : s[i] \in DigitChars

\* int(s) succeeds on decimal digits; U+00B2 is a digit but not a decimal
IntOk(s) == s # <<>> /\ \A i \in 1..Len(s) : s[i] \in AsciiDigits

RECURSIVE int(_)
int(s) == IF s = <<>> THEN 0
          ELSE 10 * int(SubSeq(s, 1, Len(s) - 1)) + DigitValue(s[Len(s)])

\* str.lower() on the characters the model uses
LowerChar(c) == IF c = "Y" THEN "y" ELSE IF c = "N" THEN "n" ELSE c

lower(s) == [i \in 1..Len(s) |-> LowerChar(s[i])]

-----------------------------------------------------------------------------
(* handle_cmd, lines 79-82: cmd.lstrip(CMDFIX) and name, *args = split(" ") *)

Stripped(c) == lstrip(c, CMDFIX)

Parts(c) == split(Stripped(c), SP)

name(c) == Head(Parts(c))

args(c) == Tail(Parts(c))

-----------------------------------------------------------------------------
(* Command names matched by handle_cmd, lines 82-177 *)

W_bash == <<"b", "a", "s", "h">>

W_sh == <<"s", "h">>

W_shell == <<"s", "h", "e", "l", "l">>

W_python == <<"p", "y", "t", "h", "o", "n">>

W_py == <<"p", "y">>

W_continue == <<"c", "o", "n", "t", "i", "n", "u", "e">>

W_log == <<"l", "o", "g">>

W_rename == <<"r", "e", "n", "a", "m", "e">>

W_fork == <<"f", "o", "r", "k">>

W_summarize == <<"s", "u", "m", "m", "a", "r", "i", "z", "e">>

W_edit == <<"e", "d", "i", "t">>

W_context == <<"c", "o", "n", "t", "e", "x", "t">>

W_undo == <<"u", "n", "d", "o">>

W_load == <<"l", "o", "a", "d">>

W_save == <<"s", "a", "v", "e">>

W_exit == <<"e", "x", "i", "t">>

W_replay == <<"r", "e", "p", "l", "a", "y">>

W_impersonate == <<"i", "m", "p", "e", "r", "s", "o", "n", "a", "t", "e">>

W_help == <<"h", "e", "l", "p">>

W_frobnicate == <<"f", "r", "o", "b", "n", "i", "c", "a", "t", "e">>

\* every name that has a case of its own in the match statement
Handled ==
    {W_bash, W_sh, W_shell, W_python, W_py, W_continue, W_log, W_rename,
     W_fork, W_summarize, W_edit, W_context, W_undo, W_load, W_save, W_exit,
     W_replay, W_impersonate}

\* Actions, lines 22-40: the command names of the Literal ("summarize" is
\* written twice there)
Actions ==
    {"continue", "summarize", "log", "edit", "rename", "fork", "context", "load",
     "save", "shell", "python", "replay", "undo", "impersonate", "help", "exit"}

\* action_descriptions, lines 42-58, in the order of the dict
action_descriptions ==
    << [name |-> "continue", desc |-> "Continue response"],
       [name |-> "undo", desc |-> "Undo the last action"],
       [name |-> "log", desc |-> "Show the conversation log"],
       [name |-> "edit", desc |-> "Edit previous messages"],
       [name |-> "rename", desc |-> "Rename the conversation"],
       [name |-> "fork", desc |-> "Create a copy of the conversation with a new name"],
       [name |-> "summarize", desc |-> "Summarize the conversation so far"],
       [name |-> "load", desc |-> "Load a file"],
       [name |-> "save", desc |-> "Save the most recent code block to a file"],
       [name |-> "shell", desc |-> "Execute a shell command"],
       [name |-> "python", desc |-> "Execute a Python command"],
       [name |-> "replay", desc |-> "Re-execute past commands in the conversation (does not store output in log)"],
       [name |-> "impersonate", desc |-> "Impersonate the assistant"],
       [name |-> "help", desc |-> "Show this help message"],
       [name |-> "exit", desc |-> "Exit the program"] >>

-----------------------------------------------------------------------------
(* Inputs: the text a user can type at the prompt *)

D(w) == <<CMDFIX>> \o w

DA(w, a) == <<CMDFIX>> \o w \o <<SP>> \o a

HiddenFlag == <<"-", "-", "h", "i", "d", "d", "e", "n">>

\* first arguments given to undo: decimal literals, a leading minus sign,
\* extra characters, the empty token of "/undo " and the digit U+00B2
UndoArgs == {<<"0">>, <<"1">>, <<"2">>, <<"-", "1">>, <<"1", "x">>, <<>>, <<"sup2">>}

Directives ==
    {DA(W_shell, <<"l", "s">>), DA(W_bash, <<"l", "s">>), DA(W_sh, <<"l", "s">>),
     DA(W_python, <<"1">>), DA(W_py, <<"1">>),
     D(W_continue), D(W_log), DA(W_log, HiddenFlag),
     D(W_rename), DA(W_rename, <<"x">>), DA(W_fork, <<"x">>),
     D(W_summarize), D(W_edit), D(W_context),
     D(W_undo), DA(W_load, <<"f">>), D(W_save), DA(W_save, <<"f">>),
     D(W_exit), D(W_replay), DA(W_impersonate, <<"A">>),
     D(W_help), DA(W_help, <<"x">>), <<CMDFIX>> \o D(W_help), D(W_frobnicate)}
    \cup {DA(W_undo, a) : a \in UndoArgs}

\* line 81: name, *args of every text of Directives
PartsOf == [c \in Directives |-> Parts(c)]

\* line 82: the texts that match a case with one of the given names
Matching(names) == {c \in Directives : name(c) \in names}

match_shell == Matching({W_bash, W_sh, W_shell})

match_python == Matching({W_python, W_py})

match_continue == Matching({W_continue})

match_log == Matching({W_log})

match_rename == Matching({W_rename})

match_fork == Matching({W_fork})

match_summarize == Matching({W_summarize})

match_context == Matching({W_context})

match_undo == Matching({W_undo})

match_load == Matching({W_load})

match_save == Matching({W_save})

match_exit == Matching({W_exit})

match_replay == Matching({W_replay})

match_impersonate == Matching({W_impersonate})

match_edit == Matching({W_edit})

match_default == {c \in Directives : name(c) \notin Handled}

\* answers of input(): names, filenames, the overwrite answer, a reply
Names == {<<"x">>}

Filenames == {<<"f">>}

Answers == {<<"y">>, <<"Y">>, <<"n">>, <<>>, <<"y", "e", "s">>}

Replies == {<<"A">>}

-----------------------------------------------------------------------------
(* Messages and the collaborators handle_cmd calls *)

Message(role, content) == [role |-> role, content |-> content, hide |-> FALSE]

\* the constructor with hide set, used for the initial system prompt
HiddenMessage(role, content) == [role |-> role, content |-> content, hide |-> TRUE]

\* LogManager.undo(n): removes the last n messages, all of them when the
\* transcript holds fewer
undo(lg, n) == SubSeq(lg, 1, IF n >= Len(lg) THEN 0 ELSE Len(lg) - n)

None == [some |-> FALSE, val |-> <<>>]

Some(v) == [some |-> TRUE, val |-> v]

\* Python truth value of an Optional sequence: None and the empty sequence are false
Truthy(x) == x.some /\ x.val # <<>>

FencePositions(content) == {i \in 1..Len(content) : content[i] = "FENCE"}

HasCodeBlock(m) == Cardinality(FencePositions(m.content)) >= 2

\* the text between the first two fences of a message
CodeOf(m) ==
    LET ps == FencePositions(m.content)
        a == CHOOSE i \in ps : \A j \in ps : i <= j
        b == CHOOSE i \in ps \ {a} : \A j \in ps \ {a} : i <= j
    IN SubSeq(m.content, a + 1, b - 1)

\* LogManager.get_last_code_block(): the code of the most recent message
\* holding a fenced block, None when no message holds one
get_last_code_block(lg) ==
    LET holders == {i \in 1..Len(lg) : HasCodeBlock(lg[i])}
    IN IF holders = {} THEN None
       ELSE Some(CodeOf(lg[CHOOSE i \in holders : \A j \in holders : j <= i]))

\* msgs_to_toml: one table <<role, content, hide>> per message, in the order given
msgs_to_toml(msgs) ==
    [malformed |-> FALSE,
     tables |-> [i \in 1..Len(msgs) |-> <<msgs[i].role, msgs[i].content, msgs[i].hide>>]]

\* toml_to_msgs raises on a document that is not well formed
ParseFails(doc) == doc.malformed

toml_to_msgs(doc) ==
    [i \in 1..Len(doc.tables) |->
        [role |-> doc.tables[i][1], content |-> doc.tables[i][2], hide |-> doc.tables[i][3]]]

\* edit_text_with_editor: what the user can hand back for the buffer doc:
\* the buffer untouched, the buffer made (or no longer) malformed, the buffer
\* without its first table, and a document without any table
edit_text_with_editor(doc) ==
    {doc,
     [doc EXCEPT !.malformed = ~@],
     [doc EXCEPT !.tables = IF @ = <<>> THEN @ ELSE Tail(@)],
     [malformed |-> FALSE, tables |-> <<>>]}

Output == Message("system", <<"o">>)

\* execute_shell / execute_python / execute_msg: the messages a run produces
ExecOutputs == {<<>>, <<Output>>}

\* _gen_context_msg()
ContextMsg == Message("system", <<"c">>)

Interrupted == Message("system", <<"I", "n", "t", "e", "r", "r", "u", "p", "t", "e", "d">>)

LoadHeader == <<"#", " ", "f", "i", "l", "e", "n", "a", "m", "e", ":", " ">>

\* the message without the contents of the file
LoadMsg_header_only(filename, contents) == Message("system", LoadHeader \o filename)

\* line 145: f"# filename: {filename}\n\n{contents}"
LoadMsg(filename, contents) ==
    Message("system", LoadHeader \o filename \o <<"\n", "\n">> \o contents)

NoFile == [exists |-> FALSE, data |-> <<>>]

File(data) == [exists |-> TRUE, data |-> data]

\* an effect of the handler: a print, a prompt, a call of a collaborator
\* (val is the text typed at a prompt or handed to a collaborator)
Ev(op, text, n, flag) == [op |-> op, text |-> text, n |-> n, flag |-> flag, val |-> <<>>]

EvUndo(n, quiet) == Ev("undo", "", n, quiet)

EvPrint(text) == Ev("print", text, 0, FALSE)

EvInput(prompt, typed) == [Ev("input", prompt, 0, FALSE) EXCEPT !.val = typed]

\* input() that raises instead of returning a line
EvInputRaises(prompt) == Ev("input", prompt, 0, TRUE)

\* lines 184-186: the header and one line per entry of action_descriptions
HelpListing ==
    <<EvPrint("Available commands:")>> \o
    [i \in 1..Len(action_descriptions) |->
        Ev("print_entry", action_descriptions[i].name, i, FALSE)]

-----------------------------------------------------------------------------
(* The state machine *)

SystemPrompt == HiddenMessage("system", <<"s">>)

Init ==
    /\ log \in {<<>>, <<SystemPrompt>>}
    /\ files \in [Filenames -> {NoFile, File(<<"o">>)}]
    /\ pc = "idle"
    /\ t = msgs_to_toml(<<>>)
    /\ res = None
    /\ out = <<>>
    /\ yielded = <<>>
    /\ cmd = <<>>
    /\ entry = "none"
    /\ no_confirm = FALSE
    /\ parsed = <<>>
    /\ pre = <<>>
    /\ result = "none"

\* no text taken for a command
IsCommand_never(content) == FALSE

\* execute_cmd, line 68: msg.content[:1] in ["/"]; the slice of the empty
\* text is the empty text
IsCommand(content) == SubSeq(content, 1, IF content = <<>> THEN 0 ELSE 1) = <<"/">>

\* execute_cmd is handed a message the caller has already appended to the
\* transcript; handle_cmd called directly sees the transcript as it is
Seen(c, e) == IF e = "execute_cmd" THEN Append(log, Message("user", c)) ELSE log

\* A call of handle_cmd(c, log, nc) can start: the interpreter is idle,
\* execute_cmd passes no_confirm=True (line 69) and only text that starts
\* with the marker, and the transcript has room for the message and for k
\* messages produced
CanCall(c, e, nc, k) ==
    /\ pc = "idle"
    /\ e = "execute_cmd" => nc /\ IsCommand(c)
    /\ Len(log) + 1 + k <= MaxLen

\* execute_cmd, lines 69-70: every message produced is appended
Appended(lg, e, ys) == IF e = "execute_cmd" THEN lg \o ys ELSE lg

\* the call ends: lg is the transcript the handler leaves, o its effects,
\* ys the messages it produced, r how it ended
Ends(c, e, nc, lg, o, ys, r) ==
    /\ log' = Appended(lg, e, ys)
    /\ out' = o
    /\ yielded' = ys
    /\ cmd' = c
    /\ entry' = e
    /\ no_confirm' = nc
    /\ parsed' = PartsOf[c]
    /\ pre' = log
    /\ result' = r
    /\ pc' = "done"

\* the retraction left out: the transcript is handed on as it is
retract_nothing(lg) == lg

\* log.undo(1, quiet=True), the first statement of the cases continue, log,
\* rename, edit, undo, save and replay (lines 89, 91, 94, 111, 137, 148, 166)
retract(lg) == undo(lg, 1)

Entries == {"execute_cmd"}

\* the chat loop appends a user message and execute_cmd returns False for
\* it (lines 68, 72): no handler runs
UserTexts == {<<"B">>}

not_a_command(U) ==
    \E c \in U :
        /\ pc = "idle"
        /\ Len(log) < MaxLen
        /\ ~IsCommand(c)
        /\ log' = Append(log, Message("user", c))
        /\ cmd' = c /\ entry' = "execute_cmd" /\ no_confirm' = TRUE
        /\ pre' = log /\ result' = "false" /\ pc' = "done"
        /\ UNCHANGED <<files, t, res, out, yielded, parsed>>

\* the model's reply, appended by the chat loop
AssistantTexts == {<<"A">>, <<"FENCE", "x", "FENCE">>}

assistant_reply ==
    \E c \in AssistantTexts :
        /\ pc = "idle"
        /\ Len(log) < MaxLen
        /\ log' = Append(log, Message("assistant", c))
        /\ UNCHANGED <<files, pc, t, res, out, yielded, cmd, entry, no_confirm, parsed, pre, result>>

\* the caller of execute_cmd goes back to the prompt; the record of the
\* call that has ended and the locals of its handler are dropped
next_prompt ==
    /\ pc = "done"
    /\ pc' = "idle"
    /\ t' = msgs_to_toml(<<>>)
    /\ res' = None
    /\ out' = <<>> /\ yielded' = <<>> /\ cmd' = <<>> /\ entry' = "none"
    /\ no_confirm' = FALSE /\ parsed' = <<>> /\ pre' = <<>> /\ result' = "none"
    /\ UNCHANGED <<log, files>>

\* the shell run made to ask whatever no_confirm says
shell_ask_always(nc) == TRUE

\* line 84: ask=not no_confirm
shell_ask(nc) == ~nc

\* lines 83-84: case "bash" | "sh" | "shell"
case_shell(E) ==
    \E c \in match_shell, e \in E, nc \in BOOLEAN, ys \in ExecOutputs :
        /\ CanCall(c, e, nc, 1)
        /\ Ends(c, e, nc, Seen(c, e),
                <<[Ev("execute_shell", "", 0, shell_ask(nc)) EXCEPT !.val = join(args(c), SP)]>>,
                ys, "returned")
        /\ UNCHANGED <<files, t, res>>

\* line 86: ask=not no_confirm
python_ask(nc) == ~nc

\* lines 85-86: case "python" | "py"
case_python(E) ==
    \E c \in match_python, e \in E, nc \in BOOLEAN, ys \in ExecOutputs :
        /\ CanCall(c, e, nc, 1)
        /\ Ends(c, e, nc, Seen(c, e),
                <<[Ev("execute_python", "", 0, python_ask(nc)) EXCEPT !.val = join(args(c), SP)]>>,
                ys, "returned")
        /\ UNCHANGED <<files, t, res>>

\* lines 87-89: case "continue"
case_continue(E) ==
    \E c \in match_continue, e \in E, nc \in BOOLEAN :
        /\ CanCall(c, e, nc, 0)
        /\ Ends(c, e, nc, retract(Seen(c, e)), <<EvUndo(1, TRUE)>>, <<>>, "returned")
        /\ UNCHANGED <<files, t, res>>

\* line 92: "--hidden" in args
show_hidden(c) == \E i \in 1..Len(args(c)) : args(c)[i] = HiddenFlag

\* the transcript printed before the directive is retracted
log_effects_print_first(hidden) == <<Ev("log.print", "", 0, hidden), EvUndo(1, TRUE)>>

\* lines 91-92: log.undo(1, quiet=True), then log.print(show_hidden=...)
log_effects(hidden) == <<EvUndo(1, TRUE), Ev("log.print", "", 0, hidden)>>

\* lines 90-92: case "log"
case_log(E) ==
    \E c \in match_log, e \in E, nc \in BOOLEAN :
        /\ CanCall(c, e, nc, 0)
        /\ Ends(c, e, nc, retract(Seen(c, e)), log_effects(show_hidden(c)), <<>>, "returned")
        /\ UNCHANGED <<files, t, res>>

\* args[0] if args else input(prompt): the value and the effects of getting it
Arg0OrInput(c, prompt, typed) ==
    IF args(c) # <<>> THEN [val |-> args(c)[1], evs |-> <<>>]
    ELSE [val |-> typed, evs |-> <<EvInput(prompt, typed)>>]

\* lines 93-98: case "rename"; closed says that input() finds its stream
\* closed or interrupted and raises
case_rename(E) ==
    \E c \in match_rename, e \in E, nc \in BOOLEAN, typed \in Names, closed \in BOOLEAN :
        LET new_name == Arg0OrInput(c, "New name: ", typed) IN
        /\ CanCall(c, e, nc, 0)
        /\ closed => args(c) = <<>>
        /\ IF closed
           THEN Ends(c, e, nc, retract(Seen(c, e)),
                     <<EvUndo(1, TRUE), EvInputRaises("New name: ")>>, <<>>, "raised")
           ELSE Ends(c, e, nc, retract(Seen(c, e)),
                     <<EvUndo(1, TRUE)>> \o new_name.evs \o
                     <<Ev("log.rename", "", 0, FALSE), EvPrint("Renamed conversation to")>>,
                     <<>>, "returned")
        /\ UNCHANGED <<files, t, res>>

\* fork made to retract like rename does
log_fork_retracts(lg) == undo(lg, 1)

\* lines 99-102: case "fork" leaves the transcript as it finds it
log_fork(lg) == lg

case_fork(E) ==
    \E c \in match_fork, e \in E, nc \in BOOLEAN, typed \in Names :
        LET new_name == Arg0OrInput(c, "New name: ", typed) IN
        /\ CanCall(c, e, nc, 0)
        /\ Ends(c, e, nc, log_fork(Seen(c, e)),
                new_name.evs \o <<Ev("log.fork", "", 0, FALSE)>>, <<>>, "returned")
        /\ UNCHANGED <<files, t, res>>

\* lines 103-107: case "summarize" reads the transcript and prints
log_summarize(lg) == lg

case_summarize(E) ==
    \E c \in match_summarize, e \in E, nc \in BOOLEAN :
        /\ CanCall(c, e, nc, 0)
        /\ Ends(c, e, nc, log_summarize(Seen(c, e)),
                <<Ev("log.prepare_messages", "", 0, FALSE), Ev("summarize", "", 0, FALSE),
                  EvPrint("Summary:")>>, <<>>, "returned")
        /\ UNCHANGED <<files, t, res>>

\* lines 132-134: case "context"
case_context(E) ==
    \E c \in match_context, e \in E, nc \in BOOLEAN :
        /\ CanCall(c, e, nc, 1)
        /\ Ends(c, e, nc, Seen(c, e), <<Ev("yield", "system", 0, FALSE)>>,
                <<ContextMsg>>, "returned")
        /\ UNCHANGED <<files, t, res>>

\* line 139: the condition of n = int(args[0]) if ... else 1
undo_arg_isdigit(c) == args(c) # <<>> /\ isdigit(args(c)[1])

\* line 139: int(args[0]) raises ValueError on a digit that is no decimal
undo_raises(c) == undo_arg_isdigit(c) /\ ~IntOk(args(c)[1])

\* the count defaulting to 2
undo_n_default_two(c) == IF undo_arg_isdigit(c) THEN int(args(c)[1]) ELSE 2

\* line 139: n
undo_n(c) == IF undo_arg_isdigit(c) THEN int(args(c)[1]) ELSE 1

\* lines 137-140: the body of case "undo"
undo_call(c, e, nc) ==
    IF undo_raises(c)
    THEN Ends(c, e, nc, retract(Seen(c, e)), <<EvUndo(1, TRUE)>>, <<>>, "raised")
    ELSE Ends(c, e, nc, undo(retract(Seen(c, e)), undo_n(c)),
              <<EvUndo(1, TRUE), EvUndo(undo_n(c), FALSE)>>, <<>>, "returned")

\* lines 135-140: case "undo"
case_undo(E) ==
    \E c \in match_undo, e \in E, nc \in BOOLEAN :
        /\ CanCall(c, e, nc, 0)
        /\ undo_call(c, e, nc)
        /\ UNCHANGED <<files, t, res>>

FileAt(fn) == IF fn \in DOMAIN files THEN files[fn] ELSE NoFile

\* lines 141-145: case "load"; open() raises when the file does not exist
case_load(E) ==
    \E c \in match_load, e \in E, nc \in BOOLEAN, typed \in Filenames :
        LET filename == Arg0OrInput(c, "Filename: ", typed) IN
        /\ CanCall(c, e, nc, 1)
        /\ IF FileAt(filename.val).exists
           THEN Ends(c, e, nc, Seen(c, e),
                     filename.evs \o <<Ev("open", "r", 0, TRUE), Ev("yield", "system", 0, FALSE)>>,
                     <<LoadMsg(filename.val, FileAt(filename.val).data)>>, "returned")
           ELSE Ends(c, e, nc, Seen(c, e),
                     filename.evs \o <<Ev("open", "r", 0, FALSE)>>, <<>>, "raised")
        /\ UNCHANGED <<files, t, res>>

\* overwrite taken as the default: only the answer "n" keeps the file
save_proceeds_unless_no(exists, ans) == ~exists \/ lower(ans) # <<"n">>

\* lines 156-159: the file is written unless it exists and the answer,
\* lower-cased, is not "y"
save_proceeds(exists, ans) == ~exists \/ lower(ans) = <<"y">>

\* lines 146-162: case "save"; opened says whether open(filename, "w") succeeds
case_save(E) ==
    \E c \in match_save, e \in E, nc \in BOOLEAN, typed \in Filenames,
       ans \in Answers, opened \in BOOLEAN :
        LET l1 == retract(Seen(c, e))
            code == get_last_code_block(l1)
            filename == Arg0OrInput(c, "Filename: ", typed)
            exists == FileAt(filename.val).exists
            asked == IF exists THEN <<Ev("exists", "", 0, TRUE),
                                      EvInput("File already exists, overwrite? [y/N] ", ans)>>
                     ELSE <<Ev("exists", "", 0, FALSE)>>
            o1 == <<EvUndo(1, TRUE), Ev("log.get_last_code_block", "", 0, code.some)>>
        IN
        /\ CanCall(c, e, nc, 0)
        /\ filename.val \in Filenames
        /\ IF ~Truthy(code)
           THEN /\ Ends(c, e, nc, l1, o1 \o <<EvPrint("No code block found")>>, <<>>, "returned")
                /\ UNCHANGED files
           ELSE IF ~save_proceeds(exists, ans)
           THEN /\ Ends(c, e, nc, l1, o1 \o filename.evs \o asked, <<>>, "returned")
                /\ UNCHANGED files
           ELSE IF ~opened
           THEN /\ Ends(c, e, nc, l1,
                        o1 \o filename.evs \o asked \o <<Ev("open", "w", 0, FALSE)>>,
                        <<>>, "raised")
                /\ UNCHANGED files
           ELSE /\ Ends(c, e, nc, l1,
                        o1 \o filename.evs \o asked \o
                        <<Ev("open", "w", 0, TRUE), Ev("write_file", "", 0, FALSE),
                          EvPrint("Saved code block to")>>,
                        <<>>, "returned")
                /\ files' = [files EXCEPT ![filename.val] = File(code.val)]
        /\ UNCHANGED <<t, res>>

\* lines 163-164: case "exit": sys.exit(0) ends the process
case_exit(E) ==
    \E c \in match_exit, e \in E, nc \in BOOLEAN :
        /\ CanCall(c, e, nc, 0)
        /\ log' = Seen(c, e)
        /\ out' = <<Ev("sys.exit", "", 0, FALSE)>>
        /\ yielded' = <<>> /\ cmd' = c /\ entry' = e /\ no_confirm' = nc
        /\ parsed' = PartsOf[c]
        /\ pre' = log /\ result' = "exit" /\ pc' = "exited"
        /\ UNCHANGED <<files, t, res>>

RECURSIVE PrintEach(_, _)
PrintEach(msgs, i) ==
    IF msgs = <<>> THEN <<>>
    ELSE <<Ev("print_msg", "", i, FALSE)>> \o PrintEach(Tail(msgs), i)

RECURSIVE ReplayFrom(_, _, _)
\* lines 168-171: for every assistant message, in the order of log.log,
\* execute_msg(msg, ask=True) and print_msg of each message it produces
ReplayFrom(lg, outs, i) ==
    IF i > Len(lg) THEN <<>>
    ELSE (IF lg[i].role = "assistant"
          THEN <<Ev("execute_msg", "", i, TRUE)>> \o PrintEach(outs[i], i)
          ELSE <<>>) \o ReplayFrom(lg, outs, i + 1)

RECURSIVE OutputsFrom(_, _, _)
OutputsFrom(lg, outs, i) ==
    IF i > Len(lg) THEN <<>>
    ELSE (IF lg[i].role = "assistant" THEN outs[i] ELSE <<>>) \o OutputsFrom(lg, outs, i + 1)

\* replay made to yield what execute_msg produces, as impersonate does
replay_yields_outputs(lg, outs) == OutputsFrom(lg, outs, 1)

\* lines 170-171: what execute_msg produces is printed, never yielded
replay_yields(lg, outs) == <<>>

\* lines 165-171: case "replay"; outs[i] is what execute_msg produces for log.log[i]
case_replay(E) ==
    \E c \in match_replay, e \in E, nc \in BOOLEAN :
        LET l1 == retract(Seen(c, e)) IN
        \E outs \in [1..Len(l1) -> ExecOutputs] :
            /\ CanCall(c, e, nc, 0)
            /\ Ends(c, e, nc, l1,
                    <<EvUndo(1, TRUE), EvPrint("Replaying conversation...")>> \o
                    ReplayFrom(l1, outs, 1),
                    replay_yields(l1, outs), "returned")
            /\ UNCHANGED <<files, t, res>>

\* lines 172-175: case "impersonate" up to its first yield; execute_cmd
\* appends the message before the generator is resumed
case_impersonate(E) ==
    \E c \in match_impersonate, e \in E, nc \in BOOLEAN, typed \in Replies :
        LET content == IF args(c) # <<>> THEN join(args(c), SP) ELSE typed
            evs == IF args(c) # <<>> THEN <<>> ELSE <<EvInput("[impersonate] Assistant: ", typed)>>
            msg == Message("assistant", content)
        IN
        /\ CanCall(c, e, nc, 2)
        /\ log' = Appended(Seen(c, e), e, <<msg>>)
        /\ out' = evs \o <<Ev("yield", "assistant", 0, FALSE)>>
        /\ yielded' = <<msg>>
        /\ cmd' = c /\ entry' = e /\ no_confirm' = nc /\ pre' = log
        /\ parsed' = PartsOf[c]
        /\ result' = "running" /\ pc' = "impersonate"
        /\ UNCHANGED <<files, t, res>>

\* the impersonated message run without asking
impersonate_ask_never(nc) == FALSE

\* line 176: ask=not no_confirm
impersonate_ask(nc) == ~nc

\* line 176: yield from execute_msg(msg, ask=not no_confirm)
impersonate_execute ==
    \E ys \in ExecOutputs :
        /\ pc = "impersonate"
        /\ log' = Appended(log, entry, ys)
        /\ out' = out \o <<Ev("execute_msg", "", 0, impersonate_ask(no_confirm))>>
        /\ yielded' = yielded \o ys
        /\ result' = "returned" /\ pc' = "done"
        /\ UNCHANGED <<files, t, res, cmd, entry, no_confirm, parsed, pre>>

HelpText == <<CMDFIX>> \o W_help

\* case _ with log.write() moved before log.undo(1, quiet=True)
default_effects_write_first(lg) ==
    (IF lg[Len(lg)].content # HelpText THEN <<EvPrint("Unknown command")>> ELSE <<>>)
    \o <<Ev("log.write", "", 0, FALSE), EvUndo(1, TRUE)>> \o HelpListing

\* lines 178-186: the effects of case _ on a transcript that is not empty
default_effects(lg) ==
    (IF lg[Len(lg)].content # HelpText THEN <<EvPrint("Unknown command")>> ELSE <<>>)
    \o <<EvUndo(1, TRUE), Ev("log.write", "", 0, FALSE)>> \o HelpListing

\* the retraction taking the message before the directive with it
default_retract_two(lg) == undo(lg, 2)

\* line 181: log.undo(1, quiet=True)
default_retract(lg) == undo(lg, 1)

\* lines 177-186: case _; log.log[-1] raises IndexError on an empty transcript
case_default(E) ==
    \E c \in match_default, e \in E, nc \in BOOLEAN :
        /\ CanCall(c, e, nc, 0)
        /\ IF Seen(c, e) = <<>>
           THEN Ends(c, e, nc, Seen(c, e), <<>>, <<>>, "raised")
           ELSE Ends(c, e, nc, default_retract(Seen(c, e)), default_effects(Seen(c, e)),
                     <<>>, "returned")
        /\ UNCHANGED <<files, t, res>>

\* line 116: while not res
loop_again(r) == ~Truthy(r)

\* line 127: list(reversed(res))
reconciled(r) == Reverse(r)

\* the tables of a document that failed to parse applied all the same
log_after_attempt_partial(lg, doc) ==
    IF ParseFails(doc) THEN reconciled(toml_to_msgs(doc))
    ELSE IF loop_again(Some(toml_to_msgs(doc))) THEN lg
    ELSE reconciled(toml_to_msgs(doc))

\* lines 116-127: the transcript after the editor has handed back doc: kept
\* when toml_to_msgs raises or the loop goes round again, replaced otherwise
log_after_attempt(lg, doc) ==
    IF ParseFails(doc) THEN lg
    ELSE IF loop_again(Some(toml_to_msgs(doc))) THEN lg
    ELSE reconciled(toml_to_msgs(doc))

\* lines 108-115: case "edit" up to the first call of the editor
case_edit(E) ==
    \E c \in match_edit, e \in E, nc \in BOOLEAN :
        LET l1 == retract(Seen(c, e)) IN
        /\ CanCall(c, e, nc, 0)
        /\ log' = l1
        /\ t' = msgs_to_toml(Reverse(l1))
        /\ res' = None
        /\ out' = <<EvUndo(1, TRUE)>>
        /\ yielded' = <<>>
        /\ cmd' = c /\ entry' = e /\ no_confirm' = nc /\ pre' = log
        /\ parsed' = PartsOf[c]
        /\ result' = "running" /\ pc' = "editor"
        /\ UNCHANGED files

\* lines 117-121 and 127-131: the editor hands back a document and it is
\* parsed.  The effects of one round of the loop are not added to out, which
\* keeps the effects that end the handler: replace, write, print.
editor_returns ==
    \E doc \in edit_text_with_editor(t) :
        /\ pc = "editor"
        /\ t' = doc
        /\ log' = log_after_attempt(log, doc)
        /\ IF ParseFails(doc)
           THEN /\ pc' = "sleep"
                /\ UNCHANGED <<res, out, result>>
           ELSE /\ res' = Some(toml_to_msgs(doc))
                /\ IF loop_again(res')
                   THEN /\ pc' = "editor"
                        /\ UNCHANGED <<out, result>>
                   ELSE /\ pc' = "done"
                        /\ result' = "returned"
                        /\ out' = out \o <<Ev("replace", "", 0, FALSE),
                                           Ev("log.write", "", 0, FALSE),
                                           EvPrint("Applied edited messages, write /log to see the result")>>
        /\ UNCHANGED <<files, yielded, cmd, entry, no_confirm, parsed, pre>>

\* line 123: sleep(1) returns and the loop goes round again
sleep_returns ==
    /\ pc = "sleep"
    /\ pc' = "editor"
    /\ UNCHANGED <<log, files, t, res, out, yielded, cmd, entry, no_confirm, parsed, pre, result>>

\* the interruption swallowed without a message
interrupt_yields_nothing == <<>>

\* lines 125-126: what the handler produces when sleep(1) is interrupted
interrupt_yields == <<Interrupted>>

\* lines 124-126: KeyboardInterrupt during sleep(1)
sleep_interrupted ==
    /\ pc = "sleep"
    /\ log' = Appended(log, entry, interrupt_yields)
    /\ yielded' = interrupt_yields
    /\ out' = out \o <<Ev("yield", "system", 0, FALSE)>>
    /\ result' = "returned" /\ pc' = "done"
    /\ UNCHANGED <<files, t, res, cmd, entry, no_confirm, parsed, pre>>

Next ==
    \/ not_a_command(UserTexts)
    \/ assistant_reply
    \/ next_prompt
    \/ case_shell(Entries)
    \/ case_python(Entries)
    \/ case_continue(Entries)
    \/ case_log(Entries)
    \/ case_rename(Entries)
    \/ case_fork(Entries)
    \/ case_summarize(Entries)
    \/ case_edit(Entries)
    \/ editor_returns
    \/ sleep_returns
    \/ sleep_interrupted
    \/ case_context(Entries)
    \/ case_undo(Entries)
    \/ case_load(Entries)
    \/ case_save(Entries)
    \/ case_exit(Entries)
    \/ case_replay(Entries)
    \/ case_impersonate(Entries)
    \/ impersonate_execute
    \/ case_default(Entries)

Spec == Init /\ [][Next]_vars

-----------------------------------------------------------------------------
(* Calls of either entry point *)

\* handle_cmd is a function of the module like execute_cmd: a caller can
\* hand it either value of no_confirm and consume the generator itself
AnyEntry == {"execute_cmd", "handle_cmd"}

\* what a user can type: a directive, the empty message, a message that
\* holds the marker after its first character
AnyUserTexts == Directives \cup {<<>>, <<"B", CMDFIX>>}

\* the commands that run code, take an argument or can find nothing to act
\* on, called through either entry point
NextCalls ==
    \/ not_a_command(AnyUserTexts)
    \/ assistant_reply
    \/ next_prompt
    \/ case_shell(AnyEntry)
    \/ case_python(AnyEntry)
    \/ case_undo(AnyEntry)
    \/ case_save(AnyEntry)
    \/ case_replay(AnyEntry)
    \/ case_impersonate(AnyEntry)
    \/ impersonate_execute
    \/ case_default(AnyEntry)

SpecCalls == Init /\ [][NextCalls]_vars

-----------------------------------------------------------------------------
(* undo issued on longer transcripts *)

\* the longest transcript undo is issued on
ScenarioLen == 4

ScenarioTranscript ==
    <<Message("user", DA(W_undo, <<"2">>)), Message("assistant", <<"A">>),
      Message("user", <<"B">>), Message("assistant", <<"C">>)>>

ScenarioMessages == {ScenarioTranscript[i] : i \in 1..Len(ScenarioTranscript)}

\* the chat loop is at its prompt on a transcript of these messages
InitScenario ==
    /\ log \in UNION {[1..n -> ScenarioMessages] : n \in 0..ScenarioLen}
    /\ files = [f \in Filenames |-> NoFile]
    /\ pc = "idle"
    /\ t = msgs_to_toml(<<>>)
    /\ res = None
    /\ out = <<>>
    /\ yielded = <<>>
    /\ cmd = <<>>
    /\ entry = "none"
    /\ no_confirm = FALSE
    /\ parsed = <<>>
    /\ pre = <<>>
    /\ result = "none"

\* lines 68-70 and 135-140: the user types an undo directive and execute_cmd
\* hands it to handle_cmd
undo_issued ==
    \E c \in match_undo :
        /\ pc = "idle"
        /\ undo_call(c, "execute_cmd", TRUE)
        /\ UNCHANGED <<files, t, res>>

NextScenario ==
    \/ undo_issued
    \/ next_prompt

SpecScenario == InitScenario /\ [][NextScenario]_vars

-----------------------------------------------------------------------------
(* The parser of handle_cmd on its own, lines 79-81 *)

\* the longest text handed to the parser, beside the texts of Directives
MaxText == 4

ParseChars == {CMDFIX, SP, "\t", "a"}

\* "/undo  2": two spaces before the count
UndoTwoSpaces == DA(W_undo, <<SP, "2">>)

ParseInputs ==
    UNION {[1..n -> ParseChars] : n \in 0..MaxText} \cup Directives \cup {UndoTwoSpaces}

\* handle_cmd has been called with the text cmd and has not run yet
InitParse ==
    /\ cmd \in ParseInputs
    /\ pc = "called"
    /\ parsed = <<>>
    /\ log = <<>>
    /\ files = [f \in Filenames |-> NoFile]
    /\ t = msgs_to_toml(<<>>)
    /\ res = None
    /\ out = <<>>
    /\ yielded = <<>>
    /\ entry = "handle_cmd"
    /\ no_confirm = FALSE
    /\ pre = <<>>
    /\ result = "running"

\* lines 79-81: cmd.lstrip(CMDFIX), then name, *args = cmd.split(" ")
split_cmd ==
    /\ pc = "called"
    /\ parsed' = Parts(cmd)
    /\ pc' = "matching"
    /\ UNCHANGED <<log, files, t, res, out, yielded, cmd, entry, no_confirm, pre, result>>

NextParse == split_cmd

SpecParse == InitParse /\ [][NextParse]_vars

-----------------------------------------------------------------------------
(* Properties of Spec *)

\* name and args of every text a call can be about
Texts == Directives \cup UserTexts \cup AnyUserTexts

NameOf == [c \in Texts |-> name(c)]

ArgsOf == [c \in Texts |-> args(c)]

\* execute_cmd has handled the command cmd: the handler has returned,
\* raised or ended the process
Over == pc \in {"done", "exited"} /\ entry = "execute_cmd" /\ result # "false"

\* the message that carried the directive, and the place it was appended at
Directive == Message("user", cmd)

DirectivePos == Len(pre) + 1

DirectiveAbsent == Len(log) < DirectivePos \/ log[DirectivePos] # Directive

DirectivePresent == Len(log) >= DirectivePos /\ log[DirectivePos] = Directive

\* C1, as stated: for every command other than fork and summarize the
\* directive message is absent from the transcript once the command has
\* been handled.
C1_AllButForkAndSummarizeRetract ==
    (Over /\ NameOf[cmd] \notin {W_fork, W_summarize}) => DirectiveAbsent

RetractingNames == {W_continue, W_log, W_rename, W_edit, W_undo, W_save, W_replay}

KeepingNames ==
    {W_bash, W_sh, W_shell, W_python, W_py, W_context, W_load, W_impersonate, W_exit}

\* C1, amended: the directive message is absent after continue, log, rename,
\* edit, undo, save, replay and help/unrecognized; after shell/bash/sh,
\* python/py, context, load, impersonate and exit it is still in the
\* transcript, at the place it was appended at.
C1_RetractingCommandsRetract ==
    Over =>
        /\ (NameOf[cmd] \in RetractingNames \/ NameOf[cmd] \notin Handled) => DirectiveAbsent
        /\ NameOf[cmd] \in KeepingNames => DirectivePresent

C1_Witness ==
    /\ Over /\ NameOf[cmd] = W_log /\ result = "returned"
    /\ Len(pre) >= 2 /\ log = pre

InLoop == pc \in {"editor", "sleep"} /\ entry = "execute_cmd"

\* C2: while the retry loop of edit runs the transcript equals the transcript
\* the editor was first opened on; a step of the loop changes the transcript
\* only by replacing it with the whole reconciled result of a document that
\* parsed, or, when the pause is interrupted, by execute_cmd appending the
\* message the handler produced on its way out.
C2_FailedParseNeverMutates ==
    [][InLoop =>
         /\ log = pre
         /\ \/ log' = log
            \/ /\ pc = "editor" /\ pc' = "done"
               /\ ~ParseFails(t')
               /\ log' = Reverse(toml_to_msgs(t'))
            \/ /\ pc = "sleep" /\ pc' = "done"
               /\ log' = Append(log, Interrupted)]_vars

C2_Witness ==
    /\ pc = "sleep" /\ entry = "execute_cmd"
    /\ ParseFails(t) /\ Len(t.tables) < Len(pre)
    /\ log = pre

UndoHandled == Over /\ NameOf[cmd] = W_undo

\* C3, as stated: undo with a first argument made only of digits removes n
\* messages beyond the retraction (all there are, when fewer), and undo with
\* no argument or any other first argument removes 1.
C3_UndoRemovesNOrOne ==
    UndoHandled =>
        /\ result = "returned"
        /\ log = undo(pre, IF ArgsOf[cmd] # <<>> /\ isdigit(ArgsOf[cmd][1])
                           THEN int(ArgsOf[cmd][1]) ELSE 1)

InterruptedEdit ==
    /\ Over /\ NameOf[cmd] = W_edit
    /\ out # <<>> /\ out[Len(out)].op = "yield"

\* C4, as stated: an interrupt during the pause produces one system message
\* and the transcript after execute_cmd is unaltered.
C4_InterruptLeavesTranscriptUnaltered ==
    InterruptedEdit => (yielded = <<Interrupted>> /\ log = pre)

\* C4, amended: an interrupt during the pause produces exactly one system
\* message and the edit replaces nothing, but execute_cmd appends that
\* message: the transcript is the one from before the directive plus the
\* "Interrupted" message.
C4_InterruptAppendsNotice ==
    InterruptedEdit => (yielded = <<Interrupted>> /\ log = Append(pre, Interrupted))

C4_Witness == InterruptedEdit /\ Len(pre) >= 1 /\ Len(log) = Len(pre) + 1

\* C5, as stated: whenever the document parses, the empty sequence included,
\* the loop has ended, the transcript is the parsed sequence reversed and it
\* has been persisted after the replacement.
C5_ParseSuccessEndsLoop ==
    (entry = "execute_cmd" /\ NameOf[cmd] = W_edit /\ res.some) =>
        /\ pc = "done"
        /\ log = Reverse(res.val)
        /\ \E i, j \in 1..Len(out) :
              i < j /\ out[i].op = "replace" /\ out[j].op = "log.write"

\* C6, as stated: once the editor has handed back the serialized document
\* untouched and it has parsed, the edit session has ended with the
\* transcript equal to the transcript from before the directive.
C6_UntouchedDocumentRoundTrip ==
    (entry = "execute_cmd" /\ NameOf[cmd] = W_edit /\ res.some
        /\ t = msgs_to_toml(Reverse(pre))) =>
        (pc = "done" /\ log = pre)

\* C7: after fork or summarize the directive message is the last entry of
\* the transcript and every earlier entry is as it was.
C7_ForkAndSummarizeKeepDirective ==
    (Over /\ NameOf[cmd] \in {W_fork, W_summarize}) => log = Append(pre, Directive)

C7_Witness ==
    /\ Over /\ NameOf[cmd] = W_fork /\ Len(pre) >= 2
    /\ log[Len(log)] = Directive

\* C8: replay produces no message, so the transcript after it is as long as
\* the transcript from before the directive, whatever the execution handlers
\* produce.
C8_ReplayAppendsNothing ==
    (Over /\ NameOf[cmd] = W_replay) => (yielded = <<>> /\ Len(log) = Len(pre))

C8_Witness ==
    /\ Over /\ NameOf[cmd] = W_replay
    /\ \E i, j \in 1..Len(out) :
          /\ out[i].op = "print_msg" /\ out[j].op = "print_msg"
          /\ out[i].n # out[j].n
    /\ Len(log) = Len(pre)

IndicesOf(e) == {i \in 1..Len(out) : out[i] = e}

\* C9: for a command without a case of its own the effects are, in this
\* order: "Unknown command" printed (unless the directive is exactly the
\* help text), one silent undo of 1, the transcript persisted, and then every
\* entry of the registry printed; the directive is retracted.
C9_UnknownCommandOrder ==
    (Over /\ NameOf[cmd] \notin Handled) =>
        LET unknown == IndicesOf(EvPrint("Unknown command"))
            undone == IndicesOf(EvUndo(1, TRUE))
            written == IndicesOf(Ev("log.write", "", 0, FALSE))
        IN /\ result = "returned"
           /\ unknown = (IF cmd = HelpText THEN {} ELSE {1})
           /\ Cardinality(undone) = 1 /\ Cardinality(written) = 1
           /\ \A u \in unknown, i \in undone : u < i
           /\ \A i \in undone, j \in written : i < j
           /\ \A k \in 1..Len(action_descriptions) :
                 \E i \in 1..Len(out) :
                    /\ out[i] = Ev("print_entry", action_descriptions[k].name, k, FALSE)
                    /\ \A j \in written : j < i
           /\ log = pre

C9_Witness ==
    /\ Over /\ cmd = D(W_frobnicate) /\ Len(pre) >= 1
    /\ out[1] = EvPrint("Unknown command")
    /\ log = pre

\* what a save that is starting will be asked and told
SaveStep == pc = "idle" /\ pc' = "done" /\ cmd' \in match_save /\ entry' = "execute_cmd"

TypedAt(o, prompt) == {o[i].val : i \in {j \in 1..Len(o) : o[j].op = "input" /\ o[j].text = prompt}}

TranscriptHasCodeBlock(lg) == \E i \in 1..Len(lg) : HasCodeBlock(lg[i])

\* C10: save changes the filesystem only if the transcript holds a code
\* block and the destination does not exist or the overwrite answer
\* lower-cases to "y"; without a code block nothing is written and the
\* notice is printed; an existing destination is left as it is on any other
\* answer.
C10_SaveWritesOnlyWhenAllowed ==
    [][SaveStep =>
         LET dests == IF ArgsOf[cmd'] # <<>> THEN {ArgsOf[cmd'][1]}
                      ELSE TypedAt(out', "Filename: ")
             answers == TypedAt(out', "File already exists, overwrite? [y/N] ")
         IN /\ files' # files =>
                  /\ TranscriptHasCodeBlock(log)
                  /\ \E d \in dests :
                        /\ \A f \in Filenames \ {d} : files'[f] = files[f]
                        /\ ~files[d].exists \/ \E a \in answers : lower(a) = <<"y">>
            /\ ~TranscriptHasCodeBlock(log) =>
                  /\ files' = files
                  /\ \E i \in 1..Len(out') : out'[i] = EvPrint("No code block found")
            /\ \A d \in dests, a \in answers :
                  (files[d].exists /\ lower(a) # <<"y">>) => files'[d] = files[d]]_vars

C10_Witness ==
    /\ Over /\ NameOf[cmd] = W_save /\ result = "returned"
    /\ <<"Y">> \in TypedAt(out, "File already exists, overwrite? [y/N] ")
    /\ files[<<"f">>] = File(<<"x">>)

\* one of the seven commands whose case begins with log.undo(1, quiet=True)
\* is being handled or has been handled
SelfRetracting ==
    /\ entry = "execute_cmd" /\ result # "false"
    /\ pc \in {"editor", "sleep", "done"}
    /\ NameOf[cmd] \in RetractingNames

\* C15: for continue, log, rename, edit, undo, save and replay the silent undo
\* of one message is the first effect of the handler, no other effect comes
\* before it, and at every later point of the handler, the points where it
\* fails included, the directive message is gone from the transcript.
C15_RetractionIsFirstEffect ==
    SelfRetracting =>
        /\ out # <<>> /\ out[1] = EvUndo(1, TRUE)
        /\ \A i \in 2..Len(out) : out[i] # EvUndo(1, TRUE)
        /\ DirectiveAbsent

C15_Witness ==
    /\ SelfRetracting /\ NameOf[cmd] = W_save /\ result = "raised"
    /\ out[Len(out)] = Ev("open", "w", 0, FALSE)
    /\ Len(pre) >= 1 /\ log = pre

\* C16, as stated: the listing printed for help or for an unrecognized
\* command has a line for every command name the dispatcher handles:
\* continue, log, rename, fork, summarize, edit, context, undo, load, save,
\* shell, python, replay, impersonate, exit and help.
C16_ListingCoversEveryCommand ==
    (Over /\ NameOf[cmd] \notin Handled /\ result = "returned") =>
        \A a \in Actions :
            \E i \in 1..Len(out) : out[i].op = "print_entry" /\ out[i].text = a

\* C19: load of a file that can be opened produces exactly one system
\* message holding the filename and the contents of the file, and the
\* transcript after execute_cmd is the transcript it was handed (the earlier
\* entries and the directive) followed by that message; when the file cannot
\* be opened the handler ends with the error, nothing is produced and the
\* transcript is the one execute_cmd was handed.
C19_LoadAppendsOneMessageOrRaises ==
    (Over /\ NameOf[cmd] = W_load /\ ArgsOf[cmd] # <<>>) =>
        LET filename == ArgsOf[cmd][1] IN
        IF FileAt(filename).exists
        THEN /\ result = "returned"
             /\ yielded = <<[role |-> "system", hide |-> FALSE,
                             content |-> LoadHeader \o filename \o <<"\n", "\n">>
                                         \o FileAt(filename).data]>>
             /\ log = Append(pre, Directive) \o yielded
        ELSE /\ result = "raised"
             /\ yielded = <<>>
             /\ log = Append(pre, Directive)

C19_Witness ==
    /\ Over /\ NameOf[cmd] = W_load /\ result = "returned"
    /\ Len(pre) >= 1 /\ Len(log) = Len(pre) + 2
    /\ log[Len(log)].role = "system"

PreservingNames == {W_continue, W_log, W_rename, W_save, W_replay}

\* execute_cmd handles one of continue, log, rename, save, replay or a
\* command without a case of its own
PreservingStep ==
    /\ pc = "idle" /\ pc' = "done"
    /\ entry' = "execute_cmd" /\ result' # "false"
    /\ NameOf[cmd'] \in PreservingNames \/ NameOf[cmd'] \notin Handled

\* C20: handling continue, log, rename, save, replay, help or an
\* unrecognized command leaves the transcript exactly as it was before the
\* directive was appended: same length, same entries in the same order; going
\* back to the prompt changes nothing either, so the transcript is the same
\* after any number of such commands.
C20_PrefixPreserved ==
    [][/\ PreservingStep => (log' = log /\ pre' = log)
       /\ (pc = "done" /\ pc' = "idle") => log' = log]_vars

C20_Witness ==
    /\ Over /\ cmd = D(W_continue) /\ result = "returned"
    /\ Len(pre) = 2 /\ pre[1] # pre[2]
    /\ log = pre

-----------------------------------------------------------------------------
(* Properties of SpecCalls *)

\* line 174: the message impersonate constructs from its arguments
ImpersonateMsg == Message("assistant", join(ArgsOf[cmd], SP))

EventsAt(o, op) == {i \in 1..Len(o) : o[i].op = op}

\* C11: impersonate first produces the assistant message it constructed, and
\* execute_cmd has appended it while the execution handlers have not run yet;
\* the handlers run once, after that, asking for confirmation exactly when
\* no_confirm is false, and what they produce follows the message in the
\* transcript in the order produced.
C11_ImpersonateYieldsThenExecutes ==
    (NameOf[cmd] = W_impersonate /\ pc \in {"impersonate", "done"}) =>
        LET made == EventsAt(out, "yield")
            ran == EventsAt(out, "execute_msg")
        IN /\ yielded # <<>> /\ yielded[1] = ImpersonateMsg
           /\ Cardinality(made) = 1
           /\ \A i \in made, j \in ran : i < j
           /\ pc = "impersonate" => (ran = {} /\ yielded = <<ImpersonateMsg>>)
           /\ pc = "done" =>
                 (Cardinality(ran) = 1 /\ \A j \in ran : out[j].flag = ~no_confirm)
           /\ entry = "execute_cmd" => log = Append(pre, Directive) \o yielded

C11_Witness ==
    /\ pc = "done" /\ entry = "execute_cmd" /\ NameOf[cmd] = W_impersonate
    /\ Len(yielded) = 2
    /\ log = <<Directive, ImpersonateMsg, Output>>

MarkerAtZero == cmd # <<>> /\ cmd[1] = CMDFIX

\* C13: execute_cmd reports that no command was executed exactly for a text
\* that does not have the marker as its first character, the empty text
\* included; for such a text handle_cmd is not entered, nothing is printed,
\* asked or produced, and the transcript is the one execute_cmd was handed.
C13_NotACommandLeavesTranscript ==
    (pc = "done" /\ entry = "execute_cmd") =>
        /\ result = "false" <=> ~MarkerAtZero
        /\ ~MarkerAtZero =>
              /\ parsed = <<>> /\ out = <<>> /\ yielded = <<>>
              /\ log = Append(pre, Message("user", cmd))

C13_Witness ==
    /\ pc = "done" /\ entry = "execute_cmd" /\ cmd = <<>>
    /\ result = "false" /\ Len(pre) >= 1
    /\ log = Append(pre, Message("user", <<>>))

\* a user input error: a command without a case of its own, save on a
\* transcript without a code block, undo with an argument that is not made
\* of digits
InputError ==
    \/ NameOf[cmd] \notin Handled
    \/ NameOf[cmd] = W_save /\ ~TranscriptHasCodeBlock(pre)
    \/ NameOf[cmd] = W_undo /\ ArgsOf[cmd] # <<>> /\ ~isdigit(ArgsOf[cmd][1])

\* C17, as stated: on every transcript, the empty one of a direct call of
\* handle_cmd included, a user input error ends with something printed and
\* the handler returning; no exception reaches the caller.
C17_InputErrorsNeverFatal ==
    (pc = "done" /\ result # "false" /\ InputError) =>
        /\ result = "returned"
        /\ \E i \in 1..Len(out) :
              out[i].op = "print" \/ (out[i].op = "undo" /\ ~out[i].flag)


AssistantIndices(lg) == {i \in 1..Len(lg) : lg[i].role = "assistant"}

ShellNames == {W_bash, W_sh, W_shell}

PythonNames == {W_python, W_py}

\* C18: replay hands execute_msg every assistant message of the transcript,
\* each once, in the order of the transcript, skipping the other messages,
\* always asking for confirmation; shell, python and impersonate run their
\* collaborator once, asking for confirmation exactly when no_confirm is
\* false; execute_cmd passes no_confirm=True, so through it they never ask.
C18_ConfirmationModes ==
    (pc = "done" /\ result = "returned") =>
        LET replayed == EventsAt(out, "execute_msg")
            shells == EventsAt(out, "execute_shell")
            pythons == EventsAt(out, "execute_python")
        IN /\ NameOf[cmd] = W_replay =>
                 /\ \A j \in replayed : out[j].flag
                 /\ {out[j].n : j \in replayed} = AssistantIndices(log)
                 /\ \A i, j \in replayed : i < j => out[i].n < out[j].n
           /\ NameOf[cmd] \in ShellNames =>
                 (Cardinality(shells) = 1 /\ \A j \in shells : out[j].flag = ~no_confirm)
           /\ NameOf[cmd] \in PythonNames =>
                 (Cardinality(pythons) = 1 /\ \A j \in pythons : out[j].flag = ~no_confirm)
           /\ NameOf[cmd] = W_impersonate =>
                 (Cardinality(replayed) = 1 /\ \A j \in replayed : out[j].flag = ~no_confirm)
           /\ entry = "execute_cmd" =>
                 /\ no_confirm
                 /\ NameOf[cmd] \in ShellNames \cup PythonNames \cup {W_impersonate} =>
                       \A j \in replayed \cup shells \cup pythons : ~out[j].flag

C18_Witness ==
    /\ pc = "done" /\ entry = "execute_cmd" /\ NameOf[cmd] = W_replay
    /\ Cardinality(EventsAt(out, "execute_msg")) = 2
    /\ \A j \in EventsAt(out, "execute_msg") : out[j].flag

-----------------------------------------------------------------------------
(* Properties of SpecParse *)

Whitespace == {SP, "\t"}

RECURSIVE TokensFrom(_, _, _)
TokensFrom(s, tok, acc) ==
    IF s = <<>> THEN (IF tok = <<>> THEN acc ELSE Append(acc, tok))
    ELSE IF Head(s) \in Whitespace
         THEN TokensFrom(Tail(s), <<>>, IF tok = <<>> THEN acc ELSE Append(acc, tok))
         ELSE TokensFrom(Tail(s), Append(tok, Head(s)), acc)

\* the whitespace-delimited tokens of a text
Tokens(s) == TokensFrom(s, <<>>, <<>>)

\* C12, as stated: for a text that has the marker at position 0, name and
\* args are the whitespace-delimited tokens of the text after that one
\* marker (the name being the empty text when there is no token at all).
C12_TokensAfterOneMarker ==
    (pc = "matching" /\ IsCommand(cmd)) =>
        parsed = (IF Tokens(Tail(cmd)) = <<>> THEN << <<>> >> ELSE Tokens(Tail(cmd)))

-----------------------------------------------------------------------------
(* Properties of SpecScenario *)

ScenarioUndo ==
    /\ pc = "done" /\ entry = "execute_cmd" /\ cmd = D(W_undo)
    /\ pre = ScenarioTranscript

\* C14, as stated: issuing /undo on the transcript [user:"/undo 2",
\* assistant:"A", user:"B", assistant:"C"] leaves exactly the two messages
\* [user:"/undo 2", assistant:"A"].
C14_UndoLeavesTwo ==
    ScenarioUndo => log = SubSeq(ScenarioTranscript, 1, 2)

\* C14, amended: /undo without a count retracts its own message and removes
\* one message more, so every transcript loses its last message and nothing
\* else; the transcript [user:"/undo 2", assistant:"A", user:"B",
\* assistant:"C"] is left as the three messages [user:"/undo 2",
\* assistant:"A", user:"B"].
C14_UndoLeavesThree ==
    (pc = "done" /\ entry = "execute_cmd" /\ cmd = D(W_undo)) =>
        /\ result = "returned"
        /\ log = SubSeq(pre, 1, IF pre = <<>> THEN 0 ELSE Len(pre) - 1)
        /\ pre = ScenarioTranscript =>
              log = <<Message("user", DA(W_undo, <<"2">>)), Message("assistant", <<"A">>),
                      Message("user", <<"B">>)>>

C14_Witness == ScenarioUndo /\ result = "returned" /\ Len(log) = 3

====
